---------------------------- MODULE Spec2Model ----------------------------
(***************************************************************************)
(* Client-side escrow coordinator of the NFT marketplace front-end:        *)
(* the permission predicates and helpers of utils/escrow.ts and the       *)
(* manage-mode handlers of components/EscrowModal.tsx, run against an      *)
(* on-chain escrow record that the client only reads and submits          *)
(* transactions to.                                                        *)
(***************************************************************************)
EXTENDS Integers, Sequences, FiniteSets, TLC

(***************************************************************************)
(* Bounds of the model.                                                    *)
(***************************************************************************)
\* Wall-clock seconds the model lets pass.
MaxNowSec == 2
\* Longest dispute window (seconds) the contract may grant.
MaxDisputePeriod == 2
\* Attempts of waitForEscrowStateChange; stands for the 15 passed by waitAndRefresh.
PollMaxAttempts == 2
\* Reads the status card issues (its mount and its refresh timer).
MaxReads == 3
\* Escrow ids the contract has handed out, over all conversations.
MaxEscrowIds == 4
\* Longest conversation identifier (characters) passed to conversationIdToBytes32.
MaxIdChars == 34

(***************************************************************************)
(* Program constants.                                                      *)
(***************************************************************************)
\* Date.now() is in milliseconds, deadlines are in seconds.
MsPerSec == 1000
\* new Uint8Array(32): the width of the contract's conversation key.
Bytes32Size == 32
\* The id and the deadline (seconds) of the escrow the modal manages.
EscrowId == 1
Deadline == 1

NULL == "null"

\* enum EscrowState
CREATED == "CREATED"
FUNDED == "FUNDED"
NFT_DEPOSITED == "NFT_DEPOSITED"
ACTIVE == "ACTIVE"
COMPLETED == "COMPLETED"
CANCELLED == "CANCELLED"
DISPUTED == "DISPUTED"
EscrowState == {CREATED, FUNDED, NFT_DEPOSITED, ACTIVE, COMPLETED, CANCELLED, DISPUTED}

(***************************************************************************)
(* Addresses: an account written in checksum (mixed) case or in lower     *)
(* case.  toLowerCase maps both spellings of an account to the same one.  *)
(***************************************************************************)
Accounts == {"seller", "buyer", "other"}
Spellings == {"checksum", "lower"}
Address == [acct : Accounts, spelling : Spellings]
Addr(a, s) == [acct |-> a, spelling |-> s]
toLowerCase(a) == [a EXCEPT !.spelling = "lower"]

\* The accounts the wallet may connect: the contract returns addresses in
\* checksum case, the wallet gives the seller's likewise and the buyer's in
\* lower case, so that both spellings meet in the comparisons.
WalletAddresses == {Addr("seller", "checksum"), Addr("buyer", "lower"), Addr("other", "checksum")}

\* The modal's escrowId prop: manage mode is always opened for an escrow id
\* of the conversation (ChatInbox setCurrentEscrowId before setShowEscrowModal).
escrowId == EscrowId

\* A null / undefined Escrow: what getEscrow returns for a failed read and what
\* useState<Escrow | null>(null) starts with.  `!escrow' is escrow = NoEscrow.
NoEscrow ==
    [id |-> 0,
     seller |-> Addr("other", "lower"),
     buyer |-> Addr("other", "lower"),
     deadline |-> 0,
     state |-> NULL,
     disputeDeadline |-> 0]

NoTx == [kind |-> "none", sender |-> Addr("other", "lower"), status |-> "none"]

\* Instants of Date.now() the model visits: every whole second and the
\* millisecond after it, so that both sides of `>' at a deadline occur.
Instants == {0} \cup {s * MsPerSec + d : s \in 1..MaxNowSec, d \in {0, 1}}

VARIABLES
    nowMs,       \* Date.now()
    chain,       \* the on-chain Escrow record (ground truth)
    readView,    \* the record as the RPC read path currently returns it
    tx,          \* the transaction in the mempool, or NoTx
    address,     \* useAccount().address, the connected wallet
    escrow,      \* the modal's escrow snapshot (useState), or NoEscrow (null)
    isLoading,   \* the modal's busy flag (useState)
    loadPc,      \* the mount effect's loadEscrowData: "reading" | "done"
    listPc,      \* the mount effect's loadAllConversationEscrows, likewise
    op,          \* the running handler: kind, position, polling progress
    txLog,       \* what the running handler has submitted / awaited so far, in order
    toasts,      \* notices the running handler has emitted, in order
    isOpen,      \* ChatInbox showEscrowModal: the modal is mounted
    card,        \* EscrowStatus: the status card's useState values and read counter
    reads,       \* EscrowStatus: the getEscrow calls of the card still in flight
    form,        \* EscrowModal in create mode: the form, its handler and its notices
    conv,        \* a conversation's escrow ids on chain and the escrow number last shown
    enc,         \* the last call of conversationIdToBytes32: its argument and its result
    price,       \* a price on its way through parsePrice and formatPrice
    nav,         \* EscrowModal in manage mode over a conversation with several escrows
    xmtp,        \* XMTPClientManager: its fields and the calls of connect in flight
    store        \* localStorage under the encrypted-storage helpers, for one user

\* The state of the escrow modal, of the wallet and of the chain.
modalVars == <<nowMs, chain, readView, tx, address, escrow, isLoading,
               loadPc, listPc, op, txLog, toasts, isOpen>>

\* The state of the other components: none of the modal's steps touches it.
\* The state of the pure helpers and services that no component step touches.
helpers == <<price, nav, xmtp, store>>

outside == <<card, reads, form, conv, enc, helpers>>

vars == <<modalVars, outside>>

(***************************************************************************)
(* utils/escrow.ts: pure helpers.                                          *)
(***************************************************************************)
\* A mutant: the comparison includes the deadline instant itself.
isEscrowExpired_AtDeadline(e) == nowMs >= e.deadline * MsPerSec

isEscrowExpired(e) == nowMs > e.deadline * MsPerSec

isBuyer(e, userAddress) == toLowerCase(e.buyer) = toLowerCase(userAddress)
isSeller(e, userAddress) == toLowerCase(e.seller) = toLowerCase(userAddress)

canUserFundEscrow(e, userAddress) ==
    /\ e.state = CREATED
    /\ isBuyer(e, userAddress)
    /\ ~isEscrowExpired(e)

\* A mutant: the FUNDED case is forgotten.
canUserDepositNFT_CreatedOnly(e, userAddress) ==
    /\ e.state = CREATED
    /\ isSeller(e, userAddress)
    /\ ~isEscrowExpired(e)

canUserDepositNFT(e, userAddress) ==
    /\ (e.state = CREATED \/ e.state = FUNDED)
    /\ isSeller(e, userAddress)
    /\ ~isEscrowExpired(e)

\* A mutant: only the buyer may complete.
canUserCompleteEscrow_BuyerOnly(e, userAddress) ==
    /\ e.state = ACTIVE
    /\ isBuyer(e, userAddress)

canUserCompleteEscrow(e, userAddress) ==
    /\ e.state = ACTIVE
    /\ (isBuyer(e, userAddress) \/ isSeller(e, userAddress))

\* A mutant: the DISPUTED case is forgotten.
canUserCancelEscrow_DisputedAllowed(e, userAddress) ==
    LET isParty == isBuyer(e, userAddress) \/ isSeller(e, userAddress)
    IN  IF e.state = COMPLETED \/ e.state = CANCELLED
        THEN FALSE
        ELSE isParty

canUserCancelEscrow(e, userAddress) ==
    LET isParty == isBuyer(e, userAddress) \/ isSeller(e, userAddress)
    IN  IF e.state = COMPLETED \/ e.state = CANCELLED \/ e.state = DISPUTED
        THEN FALSE
        ELSE isParty

\* A mutant: the expiry check is forgotten.
canUserRaiseDispute_NoExpiry(e, userAddress) ==
    /\ (e.state = ACTIVE \/ e.state = FUNDED \/ e.state = NFT_DEPOSITED)
    /\ (isBuyer(e, userAddress) \/ isSeller(e, userAddress))

canUserRaiseDispute(e, userAddress) ==
    /\ (e.state = ACTIVE \/ e.state = FUNDED \/ e.state = NFT_DEPOSITED)
    /\ (isBuyer(e, userAddress) \/ isSeller(e, userAddress))
    /\ ~isEscrowExpired(e)

\* The role-specific guidance of getNextAction (its second switch); a `break'
\* falls through to the final return.
stateGuidance(e, userAddress) ==
    LET userIsBuyer == toLowerCase(e.buyer) = toLowerCase(userAddress)
        userIsSeller == toLowerCase(e.seller) = toLowerCase(userAddress)
    IN  IF e.state = CREATED /\ userIsBuyer THEN "Deposit payment to continue"
        ELSE IF e.state = CREATED /\ userIsSeller THEN "Waiting for buyer to deposit payment"
        ELSE IF e.state = FUNDED /\ userIsSeller THEN "Deposit your NFT to activate escrow"
        ELSE IF e.state = FUNDED THEN "Waiting for seller to deposit NFT"
        ELSE IF e.state = NFT_DEPOSITED /\ userIsBuyer THEN "Deposit payment to activate escrow"
        ELSE IF e.state = NFT_DEPOSITED THEN "Waiting for buyer to deposit payment"
        ELSE IF e.state = ACTIVE /\ userIsBuyer THEN "Complete escrow to receive NFT"
        ELSE IF e.state = ACTIVE THEN "Waiting for buyer to complete or auto-complete"
        ELSE "No action required"

\* A mutant: the state-specific guidance is consulted before the expiry.
getNextAction_GuidanceFirst(e, userAddress) ==
    IF e.state = COMPLETED THEN "Escrow completed successfully"
    ELSE IF e.state = CANCELLED THEN "Escrow was cancelled"
    ELSE IF e.state = DISPUTED
    THEN IF isEscrowExpired(e) THEN "Dispute expired - can be auto-resolved"
         ELSE "Escrow is under dispute - awaiting resolution"
    ELSE IF stateGuidance(e, userAddress) # "No action required"
    THEN stateGuidance(e, userAddress)
    ELSE "Escrow expired - funds can be refunded"

\* A mutant: the final `return' is missing, so a `break' returns nothing.
getNextAction_NoDefault(e, userAddress) ==
    IF e.state = COMPLETED THEN "Escrow completed successfully"
    ELSE IF e.state = CANCELLED THEN "Escrow was cancelled"
    ELSE IF e.state = DISPUTED
    THEN IF isEscrowExpired(e) THEN "Dispute expired - can be auto-resolved"
         ELSE "Escrow is under dispute - awaiting resolution"
    ELSE IF isEscrowExpired(e) THEN "Escrow expired - funds can be refunded"
    ELSE IF stateGuidance(e, userAddress) = "No action required" THEN ""
    ELSE stateGuidance(e, userAddress)

getNextAction(e, userAddress) ==
    LET isExpired == isEscrowExpired(e)
    IN  IF e.state = COMPLETED THEN "Escrow completed successfully"
        ELSE IF e.state = CANCELLED THEN "Escrow was cancelled"
        ELSE IF e.state = DISPUTED
        THEN IF isExpired THEN "Dispute expired - can be auto-resolved"
             ELSE "Escrow is under dispute - awaiting resolution"
        ELSE IF isExpired THEN "Escrow expired - funds can be refunded"
        ELSE stateGuidance(e, userAddress)


(***************************************************************************)
(* The contract, as the specification of the coordinator describes it.    *)
(* The contract reads the block time in whole seconds.                     *)
(***************************************************************************)
blockTime == nowMs \div MsPerSec

chainExpired(c) == blockTime > c.deadline

isChainParty(c, sender) == sender.acct = c.seller.acct \/ sender.acct = c.buyer.acct

\* The records a mined transaction of the given kind may leave, when the
\* contract accepts it; the empty set when it reverts.
ContractApply(kind, sender, c) ==
    CASE kind = "fund" ->
           IF sender.acct = c.buyer.acct /\ ~chainExpired(c) /\ c.state \in {CREATED, NFT_DEPOSITED}
           THEN {[c EXCEPT !.state = IF c.state = CREATED THEN FUNDED ELSE ACTIVE]}
           ELSE {}
      [] kind = "depositNFT" ->
           IF sender.acct = c.seller.acct /\ ~chainExpired(c) /\ c.state \in {CREATED, FUNDED}
           THEN {[c EXCEPT !.state = IF c.state = CREATED THEN NFT_DEPOSITED ELSE ACTIVE]}
           ELSE {}
      [] kind = "complete" ->
           IF isChainParty(c, sender) /\ c.state = ACTIVE
           THEN {[c EXCEPT !.state = COMPLETED]}
           ELSE {}
      [] kind = "cancel" ->
           IF isChainParty(c, sender) /\ c.state \notin {COMPLETED, CANCELLED, DISPUTED}
           THEN {[c EXCEPT !.state = CANCELLED]}
           ELSE {}
      [] kind = "dispute" ->
           IF isChainParty(c, sender) /\ ~chainExpired(c) /\ c.state \in {FUNDED, NFT_DEPOSITED, ACTIVE}
           THEN {[c EXCEPT !.state = DISPUTED, !.disputeDeadline = blockTime + p] :
                    p \in 1..MaxDisputePeriod}
           ELSE {}
      [] kind = "cancelExpired" ->
           IF \/ chainExpired(c) /\ c.state \notin {COMPLETED, CANCELLED, DISPUTED}
              \/ c.state = DISPUTED /\ blockTime > c.disputeDeadline
           THEN {[c EXCEPT !.state = CANCELLED]}
           ELSE {}
      [] OTHER -> {}

(***************************************************************************)
(* components/EscrowModal.tsx, ManageEscrowView: which buttons are shown.  *)
(***************************************************************************)
userRole(e, a) ==
    IF toLowerCase(e.seller) = toLowerCase(a) THEN "seller"
    ELSE IF toLowerCase(e.buyer) = toLowerCase(a) THEN "buyer"
    ELSE NULL

\* The action area is rendered: `if (!escrow || !address) return null' has not
\* returned and `userRole &&' holds.
ActionButtons(e, a) == e # NoEscrow /\ userRole(e, a) # NULL

OffersFund(e, a) == ActionButtons(e, a) /\ canUserFundEscrow(e, a)
OffersDepositNFT(e, a) == ActionButtons(e, a) /\ canUserDepositNFT(e, a)
OffersComplete(e, a) == ActionButtons(e, a) /\ canUserCompleteEscrow(e, a)
OffersCancel(e, a) == ActionButtons(e, a) /\ canUserCancelEscrow(e, a)
OffersDispute(e, a) == ActionButtons(e, a) /\ canUserRaiseDispute(e, a)

\* A mutant: the COMPLETED case is forgotten.
OffersCancelExpired_CompletedAllowed(e, a) ==
    /\ ActionButtons(e, a)
    /\ isEscrowExpired(e)
    /\ e.state # CANCELLED

OffersCancelExpired(e, a) ==
    /\ ActionButtons(e, a)
    /\ isEscrowExpired(e)
    /\ e.state # CANCELLED
    /\ e.state # COMPLETED

(***************************************************************************)
(* Initial state: the modal has just been mounted in manage mode for an    *)
(* escrow that exists on chain in state CREATED.                           *)
(***************************************************************************)
InitialEscrow ==
    [id |-> EscrowId,
     seller |-> Addr("seller", "checksum"),
     buyer |-> Addr("buyer", "checksum"),
     deadline |-> Deadline,
     state |-> CREATED,
     disputeDeadline |-> 0]

\* No handler is running.  attempt counts the reads of the polling loop,
\* sawExpected whether one of them showed the expected state, polled what
\* waitForEscrowStateChange returned, result what the escrow.ts call did,
\* err what it threw,
\* detached that the modal instance the handler was started in is unmounted
\* (its setIsLoading / setEscrow then change nothing).
IdleOp ==
    [kind |-> "none", pc |-> "idle", expected |-> NULL, attempt |-> 0,
     sawExpected |-> FALSE, polled |-> NULL, result |-> NULL, err |-> NULL,
     detached |-> FALSE]

\* EscrowStatus after its mount effect: loadEscrowData has set the busy flag
\* and issued the first read.  issued counts the reads issued so far, shownBy
\* is the number of the read whose result is displayed, lastOutcome how the
\* read that resolved last ended.
CardMounted ==
    [escrow |-> NoEscrow, error |-> NULL, isLoading |-> TRUE,
     issued |-> 1, shownBy |-> 0, lastOutcome |-> NULL]

\* A getEscrow call in flight: "issued" until the node has answered it.
Read(n) == [seq |-> n, outcome |-> "issued", value |-> NoEscrow]

\* `peerAddress' of a conversation whose peer's wallet is not known (undefined).
NoAddress == [acct |-> "none", spelling |-> "lower"]

\* No createEscrow transaction has been submitted.
NoArgs == [seller |-> NoAddress, buyer |-> NoAddress]

\* The create form before the modal is opened in create mode.  pc is the
\* position of handleCreateEscrow, args what was passed to createEscrow,
\* submitted the arguments of the transaction the wallet sent, err what the
\* awaited call threw.
FormClosed ==
    [pc |-> "closed", peerAddress |-> NoAddress, role |-> "seller", filled |-> FALSE,
     isLoading |-> FALSE, args |-> NoArgs, submitted |-> NoArgs,
     err |-> NULL, toasts |-> <<>>]

\* conversationIdToBytes32 has not been called yet.
NotEncoded == [called |-> FALSE, id |-> <<>>, key |-> <<>>]

\* No escrow number has been shown yet.
\* No text yet, and the price helper before any call.
NoText == <<"none">>

NoPrice == [pc |-> "idle", entered |-> NoText, wei |-> NoText, shown |-> NoText, value |-> NoText]

\* The encryption keys generateEncryptionKey hands out in a run of the model.
MaxKeys == 3

\* The names under which the model's localStorage holds items: the storage id
\* of the user's encryption key, a conversation's data, and a setting.  An
\* item's name is the base name, with ENCRYPTED_DATA_PREFIX before it or not.
KeyStorageId == "xmtp_encryption_key_user"
DataNames == {"conversation_1", "theme"}
StorageNames == [prefixed : BOOLEAN, base : {KeyStorageId} \cup DataNames]
Name(prefixed, base) == [prefixed |-> prefixed, base |-> base]

\* localStorage.getItem of a name that is not there, a string, the
\* JSON of the exported key k.
Absent == [kind |-> "none", under |-> 0, text |-> "", jwk |-> 0]
Plain(text) == [kind |-> "plain", under |-> 0, text |-> text, jwk |-> 0]
JwkOf(k) == [kind |-> "plain", under |-> 0, text |-> "jwk", jwk |-> k]

\* An empty localStorage; nothing stored through setEncryptedItem yet.
EmptyStore ==
    [ls |-> [n \in StorageNames |-> Absent], gen |-> 0,
     written |-> [b \in DataNames |-> ""]]

\* The calls of connect the model makes.
MaxConnectCalls == 3

\* A call of connect that has not been made yet.
NoCall == [pc |-> "none", awaiting |-> 0, result |-> 0]

\* new XMTPClientManager(): the field initialisers.  A client and a promise
\* are named by the call that created them; 0 is null.
NewManager ==
    [client |-> 0, isConnecting |-> FALSE, connectionPromise |-> 0,
     encryptedStorage |-> FALSE, userAddress |-> FALSE,
     calls |-> [c \in 1..MaxConnectCalls |-> NoCall],
     disconnected |-> FALSE, sinceDisconnect |-> FALSE]

\* The manage modal is not mounted.
NavClosed ==
    [pc |-> "closed", escrowId |-> 0, allEscrows |-> <<>>, currentEscrowIndex |-> 0,
     escrow |-> 0, isLoading |-> FALSE, submittedFor |-> 0, polled |-> 0, reloaded |-> 0]

NoNumber == [place |-> "none", id |-> 0, number |-> 0]

\* Both mount effects (EscrowModal.tsx 75-85) have run up to their first await.
Init ==
    /\ store = EmptyStore
    /\ xmtp = NewManager
    /\ nav = NavClosed
    /\ price = NoPrice
    /\ conv = [ids |-> <<>>, shown |-> NoNumber]
    /\ enc = NotEncoded
    /\ form = FormClosed
    /\ card = CardMounted
    /\ reads = {Read(1)}
    /\ nowMs = 0
    /\ chain = InitialEscrow
    /\ readView = InitialEscrow
    /\ tx = NoTx
    /\ address \in WalletAddresses
    /\ escrow = NoEscrow
    /\ isLoading = TRUE
    /\ loadPc = "reading"
    /\ listPc = "reading"
    /\ op = IdleOp
    /\ txLog = <<>>
    /\ toasts = <<>>
    /\ isOpen = TRUE

(***************************************************************************)
(* Environment: time, the wallet, the chain and its read path.             *)
(***************************************************************************)
\* The outcome of a finished handler run (op, txLog, toasts) is kept for one
\* state, op.pc = "done", and cleared by RunRecorded before anything else
\* moves: nothing reads it, so later steps are the same with or without it.
Running == op.pc # "done"

Tick ==
    /\ Running
    /\ \E t \in Instants : t > nowMs /\ nowMs' = t
    /\ UNCHANGED <<chain, readView, tx, address, escrow, isLoading,
                   loadPc, listPc, op, txLog, toasts, isOpen, outside>>

\* The user switches the connected account (either party, or a third one).
\* The account is read when a button is rendered / clicked and when the wallet
\* signs; a switch at any other moment shows only at the next of those.
SwitchAccount ==
    /\ op.pc \in {"idle", "approve", "write"}
    /\ \E a \in WalletAddresses : a # address /\ address' = a
    /\ UNCHANGED <<nowMs, chain, readView, tx, escrow, isLoading,
                   loadPc, listPc, op, txLog, toasts, isOpen, outside>>

\* A pending transaction is mined: the contract applies it or reverts (a
\* revert is always possible: balance, ownership of the token, approval).  A
\* transaction nobody waits for any more leaves the mempool.
Mine ==
    /\ Running
    /\ tx.status = "pending"
    /\ \/ \E c \in ContractApply(tx.kind, tx.sender, chain) :
             /\ chain' = c
             /\ tx' = IF op.pc = "receipt" THEN [tx EXCEPT !.status = "success"] ELSE NoTx
       \/ /\ chain' = chain
          /\ tx' = IF op.pc = "receipt" THEN [tx EXCEPT !.status = "reverted"] ELSE NoTx
    /\ UNCHANGED <<nowMs, readView, address, escrow, isLoading,
                   loadPc, listPc, op, txLog, toasts, isOpen, outside>>

\* The read path catches up with the chain (indexing / propagation lag).
Propagate ==
    /\ Running
    /\ readView # chain
    /\ readView' = chain
    /\ UNCHANGED <<nowMs, chain, tx, address, escrow, isLoading,
                   loadPc, listPc, op, txLog, toasts, isOpen, outside>>

(***************************************************************************)
(* utils/escrow.ts: getEscrow returns the record the read path shows, or   *)
(* null when the read fails (its catch returns null).                      *)
(***************************************************************************)
getEscrow(id) == IF id = readView.id THEN {readView, NoEscrow} ELSE {NoEscrow}

\* getConversationEscrows: the ids bound to the conversation, or [] on failure.
getConversationEscrows == {<<EscrowId>>, <<>>}

(***************************************************************************)
(* EscrowModal.tsx: the mount effects.                                     *)
(***************************************************************************)
\* loadEscrowData, from its await of getEscrow to its finally.
loadEscrowData ==
    /\ Running
    /\ loadPc = "reading"
    /\ \E r \in getEscrow(escrowId) : escrow' = r
    /\ isLoading' = FALSE
    /\ loadPc' = "done"
    /\ UNCHANGED <<nowMs, chain, readView, tx, address, listPc, op, txLog, toasts, isOpen, outside>>

\* loadAllConversationEscrows: the ids of the conversation, their records
\* (nulls filtered out, sorted by id), and setEscrow of the one whose id is
\* escrowId, else of the first; with no ids nothing is set.
loadAllConversationEscrows ==
    /\ Running
    /\ listPc = "reading"
    /\ \E ids \in getConversationEscrows :
          IF Len(ids) > 0
          THEN \E r \in getEscrow(ids[1]) :
                  LET sortedEscrows == IF r = NoEscrow THEN <<>> ELSE <<r>>
                  IN  escrow' = IF Len(sortedEscrows) > 0 THEN sortedEscrows[1] ELSE NoEscrow
          ELSE escrow' = escrow
    /\ listPc' = "done"
    /\ UNCHANGED <<nowMs, chain, readView, tx, address, isLoading,
                   loadPc, op, txLog, toasts, isOpen, outside>>

(***************************************************************************)
(* ChatInbox.tsx: the modal is rendered only while showEscrowModal holds,  *)
(* so closing it unmounts the component and opening it mounts a new one.   *)
(***************************************************************************)
\* onClose (the header's close button, never disabled): the instance is
\* unmounted.  Its useState values are gone, the loaders it has in flight
\* will set nothing, and a handler it has in flight runs on detached.
CloseModal ==
    /\ Running
    /\ isOpen
    /\ isOpen' = FALSE
    /\ escrow' = NoEscrow
    /\ isLoading' = FALSE
    /\ loadPc' = "done"
    /\ listPc' = "done"
    /\ op' = IF op.pc = "idle" THEN op ELSE [op EXCEPT !.detached = TRUE]
    /\ UNCHANGED <<nowMs, chain, readView, tx, address, txLog, toasts, outside>>

\* `Manage' on the conversation's escrow: setCurrentEscrowId, setShowEscrowModal(true);
\* a new instance is mounted and both of its effects run up to their first await.
OpenModal ==
    /\ Running
    /\ ~isOpen
    /\ isOpen' = TRUE
    /\ escrow' = NoEscrow
    /\ isLoading' = TRUE
    /\ loadPc' = "reading"
    /\ listPc' = "reading"
    /\ UNCHANGED <<nowMs, chain, readView, tx, address, op, txLog, toasts, outside>>

(***************************************************************************)
(* EscrowModal.tsx: the mutating handlers.  One handler runs at a time in  *)
(* this model; op.pc is the await it is suspended at.                      *)
(***************************************************************************)
Toast(type, msg) == [type |-> type, msg |-> msg]

\* What a failing writeContract / waitForTransactionReceipt may throw.
WriteErrors == {"UserRejected", "Revert", "Transport", "NoMessage"}
ReceiptErrors == {"Revert", "Transport", "NoMessage"}

\* The catch block of a handler: `User rejected' gives a neutral warning; an
\* error without a message makes error.message.includes throw inside the
\* catch, so no notice is added; everything else is an error notice.
catchToasts(err) ==
    IF err = "UserRejected" THEN <<Toast("warning", "cancelled")>>
    ELSE IF err = "NoMessage" THEN <<>>
    ELSE <<Toast("error", "failed")>>

\* A handler may start: its button is rendered and not disabled, and no other
\* handler of the model is running.
CanClick == isOpen /\ op.pc = "idle" /\ ~isLoading

\* setIsLoading(v) / setEscrow(r) called by the running handler: a state
\* update of an unmounted component instance is dropped.
setIsLoading(v) == isLoading' = IF op.detached THEN isLoading ELSE v
setEscrow(r) == escrow' = IF op.detached THEN escrow ELSE r

\* From the click to the first await: the guard, setIsLoading(true), the info
\* notice, and the call of the escrow.ts function.
HandlerStart(kind, expected) ==
    /\ escrow # NoEscrow
    /\ isLoading' = TRUE
    /\ toasts' = <<Toast("info", kind)>>
    /\ txLog' = <<>>
    /\ op' = [IdleOp EXCEPT !.kind = kind,
                             !.pc = IF kind = "depositNFT" THEN "approve" ELSE "write",
                             !.expected = expected]
    /\ UNCHANGED <<nowMs, chain, readView, tx, address, escrow, loadPc, listPc, isOpen, outside>>

handleDepositPayment ==
    /\ CanClick /\ OffersFund(escrow, address)
    /\ HandlerStart("fund", FUNDED)

handleDepositNFT ==
    /\ CanClick /\ OffersDepositNFT(escrow, address)
    /\ HandlerStart("depositNFT", NFT_DEPOSITED)

handleCompleteEscrow ==
    /\ CanClick /\ OffersComplete(escrow, address)
    /\ HandlerStart("complete", COMPLETED)

\* `if (... || !cancelReason) return': an empty reason field makes the click a no-op.
handleCancelEscrow ==
    /\ CanClick /\ OffersCancel(escrow, address)
    /\ \E cancelReason \in {"", "reason"} :
          IF cancelReason = "" THEN UNCHANGED vars ELSE HandlerStart("cancel", CANCELLED)

\* The button is disabled while disputeReason.trim() is empty.
handleRaiseDispute ==
    /\ CanClick /\ OffersDispute(escrow, address)
    /\ HandlerStart("dispute", DISPUTED)

handleCancelExpiredEscrow ==
    /\ CanClick /\ OffersCancelExpired(escrow, address)
    /\ HandlerStart("cancelExpired", CANCELLED)

\* A mutant: the flag is reset at the end of the catch block instead of in a
\* finally, so the TypeError of an error without a message skips the reset.
HandlerCatch_NoFinally(err) ==
    /\ toasts' = toasts \o catchToasts(err)
    /\ setIsLoading(IF err = "NoMessage" THEN isLoading ELSE FALSE)
    /\ op' = [op EXCEPT !.pc = "done", !.result = "threw", !.err = err]

\* The handler's catch and finally after the awaited call threw err.
HandlerCatch(err) ==
    /\ toasts' = toasts \o catchToasts(err)
    /\ setIsLoading(FALSE)
    /\ op' = [op EXCEPT !.pc = "done", !.result = "threw", !.err = err]

(***************************************************************************)
(* utils/escrow.ts depositNFT: approve, wait for the approval, deposit.    *)
(***************************************************************************)
\* A mutant: the deposit is submitted without waiting for the approval's receipt.
AfterApproveSubmit_NoWait == "write"

\* Where depositNFT continues once the approval's hash is known.
AfterApproveSubmit == "approveWait"

\* await writeContract(approve)
depositNFT_Approve ==
    /\ op.pc = "approve"
    /\ \/ /\ txLog' = Append(txLog, "approve")
          /\ op' = [op EXCEPT !.pc = AfterApproveSubmit]
          /\ UNCHANGED <<toasts, isLoading>>
       \/ /\ \E err \in WriteErrors : HandlerCatch(err)
          /\ UNCHANGED txLog
    /\ UNCHANGED <<nowMs, chain, readView, tx, address, escrow, loadPc, listPc, isOpen, outside>>

\* await waitForTransactionReceipt(approveHash)
depositNFT_WaitApproval ==
    /\ op.pc = "approveWait"
    /\ \/ /\ txLog' = Append(txLog, "approveReceipt")
          /\ op' = [op EXCEPT !.pc = "write"]
          /\ UNCHANGED <<toasts, isLoading>>
       \/ /\ \E err \in ReceiptErrors : HandlerCatch(err)
          /\ UNCHANGED txLog
    /\ UNCHANGED <<nowMs, chain, readView, tx, address, escrow, loadPc, listPc, isOpen, outside>>

\* await writeContract(...) of the escrow call itself (every handler; the last
\* step of depositNFT).  The wallet signs with the connected account.
WriteContract ==
    /\ op.pc = "write"
    /\ \/ /\ tx = NoTx
          /\ tx' = [kind |-> op.kind, sender |-> address, status |-> "pending"]
          /\ txLog' = Append(txLog, op.kind)
          /\ op' = [op EXCEPT !.pc = "receipt", !.result = "returned"]
          /\ UNCHANGED <<toasts, isLoading>>
       \/ /\ \E err \in WriteErrors : HandlerCatch(err)
          /\ UNCHANGED <<tx, txLog>>
    /\ UNCHANGED <<nowMs, chain, readView, address, escrow, loadPc, listPc, isOpen, outside>>

(***************************************************************************)
(* EscrowModal.tsx waitAndRefresh and escrow.ts waitForEscrowStateChange.  *)
(***************************************************************************)
\* The rest of a handler once waitAndRefresh has returned: the success
\* notice and the finally block.
HandlerFinish(notices) ==
    /\ toasts' = toasts \o notices \o <<Toast("success", op.kind)>>
    /\ setIsLoading(FALSE)

\* await waitForTransactionReceipt(hash).  It throws when the transaction
\* reverted and when the transport fails; waitAndRefresh catches both, warns
\* and returns, and the handler goes on to its success notice.
waitAndRefresh_Receipt ==
    /\ op.pc = "receipt"
    /\ \/ /\ tx.status = "success"
          /\ tx' = NoTx
          /\ txLog' = Append(txLog, "receipt")
          /\ op.expected # NULL /\ escrowId # 0
          /\ op' = [op EXCEPT !.pc = "poll"]
          /\ UNCHANGED <<toasts, isLoading>>
       \/ /\ tx.status \in {"pending", "success", "reverted"}
          /\ tx' = IF tx.status = "pending" THEN tx ELSE NoTx
          /\ HandlerFinish(<<Toast("warning", "pending")>>)
          /\ op' = [op EXCEPT !.pc = "done"]
          /\ UNCHANGED txLog
    /\ UNCHANGED <<nowMs, chain, readView, address, escrow, loadPc, listPc, isOpen, outside>>

\* `escrow && escrow.state === expectedState'
stateMatches(r, expectedState) == r # NoEscrow /\ r.state = expectedState

\* A mutant: the loop runs while attempt <= maxAttempts.
pollContinues_OffByOne(attempt, maxAttempts) == attempt <= maxAttempts

\* The loop condition of waitForEscrowStateChange.
pollContinues(attempt, maxAttempts) == attempt < maxAttempts

\* One iteration of waitForEscrowStateChange: the read, and either `return
\* true' (after which waitAndRefresh calls loadEscrowData, which sets the
\* busy flag and awaits its own read) or the delay before the next one.
waitForEscrowStateChange_Attempt ==
    /\ op.pc = "poll"
    /\ pollContinues(op.attempt, PollMaxAttempts)
    /\ \E r \in getEscrow(escrowId) :
          LET seen == (r.state = op.expected)
          IN  IF stateMatches(r, op.expected)
              THEN /\ op' = [op EXCEPT !.pc = "reloading", !.attempt = @ + 1,
                                       !.sawExpected = seen, !.polled = "true"]
                   /\ setIsLoading(TRUE)
              ELSE /\ op' = [op EXCEPT !.attempt = @ + 1, !.sawExpected = seen]
                   /\ UNCHANGED isLoading
    /\ UNCHANGED <<nowMs, chain, readView, tx, address, escrow,
                   loadPc, listPc, txLog, toasts, isOpen, outside>>

\* A mutant: an exhausted poll is treated as a failure of the action.
waitForEscrowStateChange_Exhausted_Fails ==
    /\ op.pc = "poll"
    /\ ~pollContinues(op.attempt, PollMaxAttempts)
    /\ op' = [op EXCEPT !.pc = "done", !.polled = "false", !.result = "threw"]
    /\ toasts' = Append(toasts, Toast("error", "failed"))
    /\ setIsLoading(FALSE)
    /\ UNCHANGED <<nowMs, chain, readView, tx, address, escrow,
                   loadPc, listPc, txLog, isOpen, outside>>

\* The loop ends without a match: `return false', the warning of
\* waitAndRefresh, and the start of loadEscrowData.
waitForEscrowStateChange_Exhausted ==
    /\ op.pc = "poll"
    /\ ~pollContinues(op.attempt, PollMaxAttempts)
    /\ op' = [op EXCEPT !.pc = "reloading", !.polled = "false"]
    /\ toasts' = Append(toasts, Toast("warning", "updating"))
    /\ setIsLoading(TRUE)
    /\ UNCHANGED <<nowMs, chain, readView, tx, address, escrow,
                   loadPc, listPc, txLog, isOpen, outside>>

\* loadEscrowData inside waitAndRefresh, from its read to its finally, then
\* onEscrowUpdated, the handler's success notice and its finally.
waitAndRefresh_Reload ==
    /\ op.pc = "reloading"
    /\ \E r \in getEscrow(escrowId) : setEscrow(r)
    /\ txLog' = txLog \o <<"loadEscrowData", "onEscrowUpdated">>
    /\ HandlerFinish(<<>>)
    /\ op' = [op EXCEPT !.pc = "done"]
    /\ UNCHANGED <<nowMs, chain, readView, tx, address, loadPc, listPc, isOpen, outside>>

\* The record of the finished run is cleared (its notices time out).
RunRecorded ==
    /\ op.pc = "done"
    /\ op' = IdleOp
    /\ toasts' = <<>>
    /\ txLog' = <<>>
    /\ UNCHANGED <<nowMs, chain, readView, tx, address, escrow, isLoading,
                   loadPc, listPc, isOpen, outside>>

Next ==
    \/ Tick
    \/ SwitchAccount
    \/ Mine
    \/ Propagate
    \/ loadEscrowData
    \/ loadAllConversationEscrows
    \/ handleDepositPayment
    \/ handleDepositNFT
    \/ handleCompleteEscrow
    \/ handleCancelEscrow
    \/ handleRaiseDispute
    \/ handleCancelExpiredEscrow
    \/ depositNFT_Approve
    \/ depositNFT_WaitApproval
    \/ WriteContract
    \/ waitAndRefresh_Receipt
    \/ waitForEscrowStateChange_Attempt
    \/ waitForEscrowStateChange_Exhausted
    \/ waitAndRefresh_Reload
    \/ RunRecorded

Spec == Init /\ [][Next]_vars

(***************************************************************************)
(* components/EscrowStatus.tsx: the status card of an escrow in the chat.  *)
(* Its mount effect and its 5-second timer call loadEscrowData; a call     *)
(* does not wait for the previous one, so several reads can be in flight,  *)
(* and they resolve in any order.                                          *)
(***************************************************************************)
\* How a readContract call can end: with the record, with a revert of the
\* call (no such record), or with a failure of the transport.
ReadOutcomes == {"ok", "revert", "transport"}

\* utils/escrow.ts getEscrow as a call: what it returns, and whether it throws.
\* Its catch takes every error of readContract and returns null.
getEscrowCall(outcome, record) ==
    [threw |-> FALSE,
     value |-> IF outcome = "ok" THEN record ELSE NoEscrow]

\* The state of everything but the card and the chain.
besideCard == <<nowMs, readView, tx, address, escrow, isLoading,
                loadPc, listPc, op, txLog, toasts, isOpen, form, conv, enc, helpers>>

\* The timer fires (or the effect re-runs): loadEscrowData up to its await.
Card_Refresh ==
    /\ card.issued < MaxReads
    /\ card' = [card EXCEPT !.isLoading = TRUE, !.error = NULL, !.issued = @ + 1]
    /\ reads' = reads \cup {Read(card.issued + 1)}
    /\ UNCHANGED <<chain, besideCard>>

\* The node answers a read with the record as it is on chain at that moment,
\* or the read fails.
Card_NodeAnswers ==
    /\ \E r \in reads : \E o \in ReadOutcomes :
          /\ r.outcome = "issued"
          /\ reads' = (reads \ {r}) \cup
                         {[r EXCEPT !.outcome = o,
                                    !.value = IF o = "ok" THEN chain ELSE NoEscrow]}
    /\ UNCHANGED <<card, chain, besideCard>>

\* The answer of a read arrives: loadEscrowData from its await to its finally.
Card_loadEscrowData ==
    /\ \E r \in reads :
          /\ r.outcome # "issued"
          /\ LET call == getEscrowCall(r.outcome, r.value)
                 escrowData == call.value
             IN  card' = IF call.threw
                         THEN [card EXCEPT !.error = "Failed to load escrow",
                                           !.isLoading = FALSE,
                                           !.lastOutcome = r.outcome]
                         ELSE IF escrowData # NoEscrow
                         THEN [card EXCEPT !.escrow = escrowData,
                                           !.shownBy = r.seq,
                                           !.isLoading = FALSE,
                                           !.lastOutcome = r.outcome]
                         ELSE [card EXCEPT !.error = "Escrow not found",
                                           !.isLoading = FALSE,
                                           !.lastOutcome = r.outcome]
          /\ reads' = reads \ {r}
    /\ UNCHANGED <<chain, besideCard>>

\* Somebody's transaction changes the escrow on chain.
Card_ChainStep ==
    /\ \E kind \in {"fund", "depositNFT", "complete", "cancel", "dispute"} :
       \E sender \in WalletAddresses :
       \E c \in ContractApply(kind, sender, chain) : chain' = c
    /\ UNCHANGED <<card, reads, besideCard>>

CardNext ==
    \/ Card_Refresh
    \/ Card_NodeAnswers
    \/ Card_loadEscrowData
    \/ Card_ChainStep

CardSpec == Init /\ [][CardNext]_vars

(***************************************************************************)
(* components/EscrowModal.tsx in create mode: the form and                 *)
(* handleCreateEscrow.                                                     *)
(***************************************************************************)
\* What ChatInbox passes as peerAddress: the wallet address the messaging
\* layer reports for the peer of the selected conversation, in either
\* spelling, or undefined.  Nothing relates it to the connected account.
PeerAddresses == Address \cup {NoAddress}

\* Everything but the form and the connected account.
besideForm == <<nowMs, chain, readView, tx, escrow, isLoading,
                loadPc, listPc, op, txLog, toasts, isOpen, card, reads, conv, enc, helpers>>

\* ChatInbox: `/escrow create' or the create button mounts the modal in create mode.
Form_Open ==
    /\ form.pc = "closed"
    /\ \E p \in PeerAddresses : form' = [FormClosed EXCEPT !.pc = "idle", !.peerAddress = p]
    /\ UNCHANGED <<address, besideForm>>

\* The role radio buttons.
Form_setRole ==
    /\ form.pc = "idle"
    /\ \E r \in {"seller", "buyer"} : r # form.role /\ form' = [form EXCEPT !.role = r]
    /\ UNCHANGED <<address, besideForm>>

\* The user types the NFT contract, the token id and the price.
Form_Fill ==
    /\ form.pc = "idle" /\ ~form.filled
    /\ form' = [form EXCEPT !.filled = TRUE]
    /\ UNCHANGED <<address, besideForm>>

\* The connected account changes while the form is open.
Form_SwitchAccount ==
    /\ form.pc = "idle"
    /\ \E a \in WalletAddresses : a # address /\ address' = a
    /\ UNCHANGED <<form, besideForm>>

\* The catch block of handleCreateEscrow: addToast(error.message || ..., 'error').
createCatchToasts(err) == <<Toast("error", "failed")>>

\* The click on `Create Escrow' (disabled while busy or while a required
\* field is empty), up to the await of writeContract inside createEscrow.
handleCreateEscrow ==
    /\ form.pc = "idle" /\ ~form.isLoading /\ form.filled
    /\ IF form.peerAddress = NoAddress
       THEN form' = [form EXCEPT !.toasts = <<Toast("error", "peer address missing")>>]
       ELSE LET seller == IF form.role = "seller" THEN address ELSE form.peerAddress
                buyer == IF form.role = "buyer" THEN address ELSE form.peerAddress
            IN  form' = [form EXCEPT !.isLoading = TRUE,
                                     !.toasts = <<Toast("info", "create")>>,
                                     !.args = [seller |-> seller, buyer |-> buyer],
                                     !.pc = "write"]
    /\ UNCHANGED <<address, besideForm>>

\* await writeContract(createEscrow): the wallet sends the transaction, or
\* the call throws and handleCreateEscrow's catch and finally run.
createEscrow ==
    /\ form.pc = "write"
    /\ \/ form' = [form EXCEPT !.submitted = form.args, !.pc = "receipt"]
       \/ \E err \in WriteErrors :
             form' = [form EXCEPT !.toasts = @ \o createCatchToasts(err),
                                  !.err = err, !.isLoading = FALSE, !.pc = "done"]
    /\ UNCHANGED <<address, besideForm>>

\* await waitForTransactionReceipt: the success notice, resetForm and
\* onClose, or the catch and finally.
handleCreateEscrow_Receipt ==
    /\ form.pc = "receipt"
    /\ \/ form' = [form EXCEPT !.toasts = Append(@, Toast("success", "create")),
                               !.role = "seller", !.filled = FALSE,
                               !.isLoading = FALSE, !.pc = "done"]
       \/ \E err \in ReceiptErrors :
             form' = [form EXCEPT !.toasts = @ \o createCatchToasts(err),
                                  !.err = err, !.isLoading = FALSE, !.pc = "done"]
    /\ UNCHANGED <<address, besideForm>>

\* The modal is closed (by the handler or by the user): the form is unmounted.
Form_Close ==
    /\ form.pc \in {"idle", "done"}
    /\ form' = FormClosed
    /\ UNCHANGED <<address, besideForm>>

CreateNext ==
    \/ Form_Open
    \/ Form_setRole
    \/ Form_Fill
    \/ Form_SwitchAccount
    \/ handleCreateEscrow
    \/ createEscrow
    \/ handleCreateEscrow_Receipt
    \/ Form_Close

CreateSpec == Init /\ [][CreateNext]_vars

(***************************************************************************)
(* Escrow numbers of a conversation: EscrowStatus loadEscrowNumber,        *)
(* utils/escrowMessages.ts getConversationEscrowNumber (announcements),    *)
(* and the header and list of EscrowModal.                                 *)
(***************************************************************************)
RECURSIVE insertSorted(_, _)
\* ids, sorted ascending, with id put at its place.
insertSorted(id, ids) ==
    IF Len(ids) = 0 THEN <<id>>
    ELSE IF id - Head(ids) < 0 THEN <<id>> \o ids
    ELSE <<Head(ids)>> \o insertSorted(id, Tail(ids))

RECURSIVE sortAscending(_)
\* ids.sort((a, b) => Number(a) - Number(b))
sortAscending(ids) ==
    IF Len(ids) = 0 THEN <<>> ELSE insertSorted(Head(ids), sortAscending(Tail(ids)))

\* Array.prototype.findIndex(x => x === id): 0-based, -1 when absent.
findIndex(ids, id) ==
    IF \E i \in 1..Len(ids) : ids[i] = id
    THEN (CHOOSE i \in 1..Len(ids) : ids[i] = id /\ \A j \in 1..(i - 1) : ids[j] # id) - 1
    ELSE -1

\* Array.prototype.filter: the elements of ids that are in keep, in order.
filterIds(ids, keep) == SelectSeq(ids, LAMBDA x : x \in keep)

\* EscrowStatus loadEscrowNumber, given what getConversationEscrows returned.
loadEscrowNumber(conversationEscrowIds, id) ==
    LET sortedEscrows == sortAscending(conversationEscrowIds)
        index == findIndex(sortedEscrows, id)
    IN  IF index >= 0 THEN index + 1 ELSE 1

\* getConversationEscrowNumber: `#1', whatever the conversation and the escrow.
getConversationEscrowNumber(ids, id) == 1

\* Everything but the conversation.
besideConv == <<modalVars, card, reads, form, enc, helpers>>

\* createEscrow for this conversation is mined: the contract appends the
\* next free id (ids in between belong to other conversations).
Conv_EscrowCreated ==
    /\ \E id \in 1..MaxEscrowIds :
          /\ \A i \in 1..Len(conv.ids) : conv.ids[i] < id
          /\ conv' = [conv EXCEPT !.ids = Append(@, id)]
    /\ UNCHANGED besideConv

\* The status card of an escrow of the conversation loads its number;
\* getConversationEscrows returns the ids, or [] when the read fails.
Card_loadEscrowNumber ==
    /\ \E i \in 1..Len(conv.ids) : \E conversationEscrowIds \in {conv.ids, <<>>} :
          conv' = [conv EXCEPT !.shown =
                      [place |-> "card", id |-> conv.ids[i],
                       number |-> loadEscrowNumber(conversationEscrowIds, conv.ids[i])]]
    /\ UNCHANGED besideConv

\* An announcement or notification about an escrow of the conversation is
\* formatted (formatEscrowCreatedMessage, sendEscrowNotification).
Announce_EscrowNumber ==
    /\ \E i \in 1..Len(conv.ids) :
          conv' = [conv EXCEPT !.shown =
                      [place |-> "announcement", id |-> conv.ids[i],
                       number |-> getConversationEscrowNumber(conv.ids, conv.ids[i])]]
    /\ UNCHANGED besideConv

\* The modal's list: loadAllConversationEscrows reads every id, drops the
\* reads that gave null, sorts, and numbers each entry by its index + 1.
Modal_EscrowNumber ==
    /\ \E i \in 1..Len(conv.ids) : \E readable \in SUBSET {conv.ids[j] : j \in 1..Len(conv.ids)} :
          /\ conv.ids[i] \in readable
          /\ LET sortedEscrows == sortAscending(filterIds(conv.ids, readable))
             IN  conv' = [conv EXCEPT !.shown =
                            [place |-> "modal", id |-> conv.ids[i],
                             number |-> findIndex(sortedEscrows, conv.ids[i]) + 1]]
    /\ UNCHANGED besideConv

NumberNext ==
    \/ Conv_EscrowCreated
    \/ Card_loadEscrowNumber
    \/ Announce_EscrowNumber
    \/ Modal_EscrowNumber

NumberSpec == Init /\ [][NumberNext]_vars

(***************************************************************************)
(* utils/escrow.ts conversationIdToBytes32.  An identifier is a sequence   *)
(* of code points, a key a sequence of the characters of `0x...'.          *)
(***************************************************************************)
\* TextEncoder.encode of one code point (below U+10000).
utf8Char(cp) ==
    IF cp < 128 THEN <<cp>>
    ELSE IF cp < 2048 THEN <<192 + (cp \div 64), 128 + (cp % 64)>>
    ELSE <<224 + (cp \div 4096), 128 + ((cp \div 64) % 64), 128 + (cp % 64)>>

RECURSIVE encode(_)
\* new TextEncoder().encode(conversationId)
encode(conversationId) ==
    IF Len(conversationId) = 0 THEN <<>>
    ELSE utf8Char(Head(conversationId)) \o encode(Tail(conversationId))

\* A mutant: the data is put at the end of the buffer.
toBytes32_RightJustified(data) ==
    LET length == IF Len(data) < Bytes32Size THEN Len(data) ELSE Bytes32Size
    IN  [i \in 1..Bytes32Size |->
            IF i > Bytes32Size - length THEN data[i - (Bytes32Size - length)] ELSE 0]

\* A mutant: one byte less than the buffer holds is copied.
toBytes32_OneShort(data) ==
    LET length == IF Len(data) < Bytes32Size - 1 THEN Len(data) ELSE Bytes32Size - 1
    IN  [i \in 1..Bytes32Size |-> IF i <= length THEN data[i] ELSE 0]

\* new Uint8Array(32) with data.slice(0, Math.min(data.length, 32)) set at offset 0.
toBytes32(data) ==
    LET length == IF Len(data) < Bytes32Size THEN Len(data) ELSE Bytes32Size
    IN  [i \in 1..Bytes32Size |-> IF i <= length THEN data[i] ELSE 0]

HexDigits == <<"0", "1", "2", "3", "4", "5", "6", "7", "8", "9", "a", "b", "c", "d", "e", "f">>

\* b.toString(16).padStart(2, '0')
toHex(b) ==
    IF b < 16 THEN <<"0", HexDigits[b + 1]>>
    ELSE <<HexDigits[(b \div 16) + 1], HexDigits[(b % 16) + 1]>>

RECURSIVE joinHex(_)
\* Array.from(bytes).map(toHex).join('')
joinHex(bytes) ==
    IF Len(bytes) = 0 THEN <<>> ELSE toHex(Head(bytes)) \o joinHex(Tail(bytes))

conversationIdToBytes32(conversationId) ==
    <<"0", "x">> \o joinHex(toBytes32(encode(conversationId)))

\* The identifiers the model passes: a run of `a' followed by up to two
\* characters of U+0000, `a' and the two-byte `e-acute', so that identifiers
\* below, at and above 32 bytes occur, pairs that differ only beyond byte 32,
\* a two-byte character across the boundary, and identifiers that end in
\* the character the buffer is padded with.
CodePoints == {0, 97, 233}
IdTails == {<<>>} \cup {<<c>> : c \in CodePoints} \cup {<<c, d>> : c, d \in CodePoints}
ConversationIds ==
    {[i \in 1..k |-> 97] \o t : k \in 0..(MaxIdChars - 2), t \in IdTails}

\* A call of conversationIdToBytes32 (by createEscrow or getConversationEscrows).
Encode ==
    /\ \E id \in ConversationIds :
          enc' = [called |-> TRUE, id |-> id, key |-> conversationIdToBytes32(id)]
    /\ UNCHANGED <<modalVars, card, reads, form, conv, helpers>>

\* The call is over.
Encode_Return ==
    /\ enc.called
    /\ enc' = NotEncoded
    /\ UNCHANGED <<modalVars, card, reads, form, conv, helpers>>

Bytes32Next ==
    \/ Encode
    \/ Encode_Return

Bytes32Spec == Init /\ [][Bytes32Next]_vars

(***************************************************************************)
(* utils/escrow.ts: formatPrice and parsePrice.  A bigint is written as    *)
(* the sequence of its decimal digits (no leading zero, <<"0">> for zero); *)
(* a string is the sequence of its characters.                             *)
(***************************************************************************)

\* viem: etherUnits.wei, the decimals formatEther and parseEther work with.
EtherDecimals == 18

\* The longest run of zeros the model's stored prices end in.
MaxPriceZeros == 19

Zeros(n) == [i \in 1..n |-> "0"]

\* String.prototype.padStart(n, '0')
padStart(s, n) == IF Len(s) >= n THEN s ELSE Zeros(n - Len(s)) \o s

\* String.prototype.padEnd(n, '0')
padEnd(s, n) == IF Len(s) >= n THEN s ELSE s \o Zeros(n - Len(s))

RECURSIVE stripTrailingZeros(_)
\* s.replace(/(0+)$/, '')
stripTrailingZeros(s) ==
    IF Len(s) > 0 /\ s[Len(s)] = "0"
    THEN stripTrailingZeros(SubSeq(s, 1, Len(s) - 1))
    ELSE s

RECURSIVE stripLeadingZeros(_)
stripLeadingZeros(s) ==
    IF Len(s) > 0 /\ Head(s) = "0" THEN stripLeadingZeros(Tail(s)) ELSE s

\* BigInt(string) of a string of digits: leading zeros carry no value, '' is 0n.
BigInt(s) == IF stripLeadingZeros(s) = <<>> THEN <<"0">> ELSE stripLeadingZeros(s)

\* The position of the decimal point in a string, or 0.
pointAt(s) == IF \E i \in 1..Len(s) : s[i] = "." THEN CHOOSE i \in 1..Len(s) : s[i] = "." ELSE 0

\* let [integer, fraction = '0'] = value.split('.')
integerOf(value) == IF pointAt(value) = 0 THEN value ELSE SubSeq(value, 1, pointAt(value) - 1)

fractionOf(value) ==
    IF pointAt(value) = 0 THEN <<"0">> ELSE SubSeq(value, pointAt(value) + 1, Len(value))

\* viem formatUnits(value, decimals) of a value that is not negative.
formatUnits(value, decimals) ==
    LET display == padStart(value, decimals)
        integer == SubSeq(display, 1, Len(display) - decimals)
        fraction == stripTrailingZeros(SubSeq(display, Len(display) - decimals + 1, Len(display)))
    IN (IF integer = <<>> THEN <<"0">> ELSE integer)
         \o (IF fraction = <<>> THEN <<>> ELSE <<".">> \o fraction)

\* viem parseUnits(value, decimals) of a decimal that is not negative and has
\* no more than `decimals' digits after the point once its trailing zeros are
\* dropped (the rounding of a longer fraction is not modelled).
parseUnits(value, decimals) ==
    BigInt(integerOf(value) \o padEnd(stripTrailingZeros(fractionOf(value)), decimals))

\* viem formatEther / parseEther
formatEther(wei) == formatUnits(wei, EtherDecimals)

parseEther(ether) == parseUnits(ether, EtherDecimals)

\* A display helper that keeps four decimals, as a price label often does.
formatPrice_FourDecimals(priceWei) ==
    LET full == formatEther(priceWei)
    IN IF pointAt(full) = 0 THEN full
       ELSE SubSeq(full, 1, IF Len(full) < pointAt(full) + 4 THEN Len(full) ELSE pointAt(full) + 4)

formatPrice(priceWei) == formatEther(priceWei)

parsePrice(priceEth) == parseEther(priceEth)

\* depositPayment(escrowId, priceEth): the value attached to the transaction.
depositPayment_value(priceEth) == parsePrice(priceEth)

\* What the user types into the price field: with and without integer part,
\* point and fraction, with redundant zeros, and with all eighteen decimals.
EnteredIntegers == {<<>>, <<"0">>, <<"1">>, <<"1", "0">>, <<"0", "0", "7">>}
EnteredFractions ==
    {<<>>, <<"5">>, <<"5", "0">>, <<"0", "5">>, <<"0">>,
     Zeros(EtherDecimals - 1) \o <<"1">>, Zeros(EtherDecimals),
     <<"1", "2", "3", "4", "5", "6", "7", "8", "9">> \o <<"1", "2", "3", "4", "5", "6", "7", "8", "9">>}
EnteredPrices ==
    (EnteredIntegers \ {<<>>})
      \cup {i \o <<".">> \o f : i \in EnteredIntegers, f \in EnteredFractions}

\* The prices an escrow on chain can carry: zero, and one to three significant
\* digits followed by zeros, below, at and above one ether.
StoredPrices ==
    {<<"0">>} \cup
    {lead \o Zeros(k) : lead \in {<<"1">>, <<"1", "5">>, <<"1", "0", "1">>, <<"9", "9">>},
                        k \in 0..MaxPriceZeros}

besidePrice == <<modalVars, card, reads, form, conv, enc, nav, xmtp, store>>

\* handleCreateEscrow -> createEscrow: the price typed is stored as parsePrice of it.
Price_createEscrow ==
    /\ price.pc = "idle"
    /\ \E d \in EnteredPrices :
          price' = [NoPrice EXCEPT !.pc = "stored", !.entered = d, !.wei = parsePrice(d)]
    /\ UNCHANGED besidePrice

\* getEscrow returns an escrow that some client created with any price.
Price_getEscrow ==
    /\ price.pc = "idle"
    /\ \E p \in StoredPrices : price' = [NoPrice EXCEPT !.pc = "stored", !.wei = p]
    /\ UNCHANGED besidePrice

\* The modal renders formatPrice(escrow.price).
Price_Render ==
    /\ price.pc = "stored"
    /\ price' = [price EXCEPT !.pc = "shown", !.shown = formatPrice(price.wei)]
    /\ UNCHANGED besidePrice

\* handleDepositPayment: depositPayment(escrow.id, formatPrice(escrow.price)).
Price_handleDepositPayment ==
    /\ price.pc = "shown"
    /\ price' = [price EXCEPT !.pc = "deposited",
                              !.value = depositPayment_value(formatPrice(price.wei))]
    /\ UNCHANGED besidePrice

Price_Done ==
    /\ price.pc \in {"shown", "deposited"}
    /\ price' = NoPrice
    /\ UNCHANGED besidePrice

PriceNext ==
    \/ Price_createEscrow
    \/ Price_getEscrow
    \/ Price_Render
    \/ Price_handleDepositPayment
    \/ Price_Done

PriceSpec == Init /\ [][PriceNext]_vars

(***************************************************************************)
(* EscrowModal.tsx in manage mode over a conversation with several         *)
(* escrows: the list, the navigation, and which escrow a handler submits   *)
(* for, polls and reloads.  An escrow is named by its id; 0 is null.       *)
(***************************************************************************)

\* The most escrows a conversation of the model has.
MaxShownEscrows == 3

\* What getConversationEscrows returns: the ids in the order of creation.
ConversationLists == {[i \in 1..n |-> i] : n \in 1..MaxShownEscrows}

besideNav == <<modalVars, card, reads, form, conv, enc, price, xmtp, store>>

\* ChatInbox mounts the modal with escrowId = one of the conversation's ids;
\* both mount effects run to their end.  loadAllConversationEscrows drops
\* the reads that returned null, sorts, and selects the escrow whose id is
\* escrowId, else the first; loadEscrowData sets the escrow read for escrowId.
Nav_Mount ==
    /\ nav.pc = "closed"
    /\ \E ids \in ConversationLists :
       \E id \in {ids[i] : i \in 1..Len(ids)} : \E ok \in SUBSET {ids[i] : i \in 1..Len(ids)} :
          LET sortedEscrows == sortAscending(filterIds(ids, ok))
              index == findIndex(sortedEscrows, id)
              current == IF index >= 0 THEN index ELSE 0
              listed == IF Len(sortedEscrows) > current THEN sortedEscrows[current + 1] ELSE 0
          IN  \E shown \in {listed, IF id \in ok THEN id ELSE 0} :
                 nav' = [NavClosed EXCEPT !.pc = "idle", !.escrowId = id,
                                          !.allEscrows = sortedEscrows,
                                          !.currentEscrowIndex = current,
                                          !.escrow = shown]
    /\ UNCHANGED besideNav

\* The arrows of the header: never disabled, rendered while there are two
\* escrows or more.
handleEscrowNavigation ==
    /\ nav.pc # "closed"
    /\ Len(nav.allEscrows) > 1
    /\ \E direction \in {"prev", "next"} :
          LET newIndex ==
                IF direction = "prev"
                THEN (IF nav.currentEscrowIndex > 0 THEN nav.currentEscrowIndex - 1
                      ELSE Len(nav.allEscrows) - 1)
                ELSE (IF nav.currentEscrowIndex < Len(nav.allEscrows) - 1
                      THEN nav.currentEscrowIndex + 1 ELSE 0)
          IN  nav' = [nav EXCEPT !.currentEscrowIndex = newIndex,
                                 !.escrow = nav.allEscrows[newIndex + 1]]
    /\ UNCHANGED besideNav

\* A row of the `Show All' list.
handleSelectEscrow ==
    /\ nav.pc # "closed"
    /\ Len(nav.allEscrows) > 1
    /\ \E index \in 0..(Len(nav.allEscrows) - 1) :
          nav' = [nav EXCEPT !.currentEscrowIndex = index,
                             !.escrow = nav.allEscrows[index + 1]]
    /\ UNCHANGED besideNav

\* A handler of the modal, from the click to the end of its writeContract:
\* the transaction is submitted for escrow.id, or the call throws.
Nav_Handler ==
    /\ nav.pc = "idle"
    /\ nav.escrow # 0
    /\ ~nav.isLoading
    /\ \/ nav' = [nav EXCEPT !.pc = "receipt", !.isLoading = TRUE,
                             !.submittedFor = nav.escrow, !.polled = 0, !.reloaded = 0]
       \/ nav' = [nav EXCEPT !.pc = "done", !.submittedFor = 0, !.polled = 0, !.reloaded = 0]
    /\ UNCHANGED besideNav

\* waitAndRefresh: the receipt, then waitForEscrowStateChange(escrowId, ...)
\* with the modal's escrowId; or the wait throws.
Nav_waitAndRefresh_Poll ==
    /\ nav.pc = "receipt"
    /\ \/ nav' = [nav EXCEPT !.pc = "reload", !.polled = nav.escrowId]
       \/ nav' = [nav EXCEPT !.pc = "done", !.isLoading = FALSE]
    /\ UNCHANGED besideNav

\* waitAndRefresh: loadEscrowData reads getEscrow(escrowId) and sets it (null
\* when the read fails); then the handler's finally.
Nav_waitAndRefresh_Reload ==
    /\ nav.pc = "reload"
    /\ \E r \in {nav.escrowId, 0} :
          nav' = [nav EXCEPT !.pc = "done", !.escrow = r, !.reloaded = nav.escrowId,
                             !.isLoading = FALSE]
    /\ UNCHANGED besideNav

\* The handler is over; the next click starts another.
Nav_Finish ==
    /\ nav.pc = "done"
    /\ nav' = [nav EXCEPT !.pc = "idle"]
    /\ UNCHANGED besideNav

\* onClose: the modal is unmounted.
Nav_Close ==
    /\ nav.pc # "closed"
    /\ nav' = NavClosed
    /\ UNCHANGED besideNav

NavNext ==
    \/ Nav_Mount
    \/ handleEscrowNavigation
    \/ handleSelectEscrow
    \/ Nav_Handler
    \/ Nav_waitAndRefresh_Poll
    \/ Nav_waitAndRefresh_Reload
    \/ Nav_Finish
    \/ Nav_Close

NavSpec == Init /\ [][NavNext]_vars

(***************************************************************************)
(* XMTPClientManager (connect, disconnect): each await of connect is a     *)
(* point where other calls of connect and disconnect may run.              *)
(***************************************************************************)
besideXmtp == <<modalVars, card, reads, form, conv, enc, price, nav, store>>

ConnectCalls == 1..MaxConnectCalls

\* The catch and finally blocks of connect in the manager's fields.
connectThrew(mgr) ==
    [mgr EXCEPT !.client = 0, !.isConnecting = FALSE, !.connectionPromise = 0]

\* `this.connectionPromise = createXMTPClient(signer, options)' and the await.
createXMTPClient(mgr, c) ==
    [mgr EXCEPT !.connectionPromise = c, !.calls[c].pc = "creating"]

\* connect(signer) up to its first await or return.
Connect ==
    /\ \E c \in ConnectCalls :
          /\ xmtp.calls[c].pc = "none"
          /\ \A b \in 1..(c - 1) : xmtp.calls[b].pc # "none"
          /\ xmtp' = [(IF xmtp.client # 0
                       THEN [xmtp EXCEPT !.calls[c].pc = "returned", !.calls[c].result = xmtp.client]
                       ELSE IF xmtp.isConnecting /\ xmtp.connectionPromise # 0
                       THEN [xmtp EXCEPT !.calls[c].pc = "waiting",
                                         !.calls[c].awaiting = xmtp.connectionPromise]
                       ELSE [xmtp EXCEPT !.isConnecting = TRUE, !.calls[c].pc = "getIdentifier"])
                      EXCEPT !.sinceDisconnect = FALSE]
    /\ UNCHANGED besideXmtp

\* await signer.getIdentifier() settles: it throws, or userAddress is set and,
\* where the Web Crypto API is supported, the encrypted storage is created and
\* the migration awaited; else createXMTPClient is called at once.
Connect_Identifier ==
    /\ \E c \in ConnectCalls :
          /\ xmtp.calls[c].pc = "getIdentifier"
          /\ \/ xmtp' = [connectThrew(xmtp) EXCEPT !.calls[c].pc = "threw"]
             \/ xmtp' = [xmtp EXCEPT !.userAddress = TRUE, !.encryptedStorage = TRUE,
                                     !.calls[c].pc = "migrate"]
             \/ xmtp' = createXMTPClient([xmtp EXCEPT !.userAddress = TRUE], c)
    /\ UNCHANGED besideXmtp

\* await migrateToEncrypted(userAddress) settles.
Connect_Migrated ==
    /\ \E c \in ConnectCalls :
          /\ xmtp.calls[c].pc = "migrate"
          /\ \/ xmtp' = [connectThrew(xmtp) EXCEPT !.calls[c].pc = "threw"]
             \/ xmtp' = createXMTPClient(xmtp, c)
    /\ UNCHANGED besideXmtp

\* `this.client = await this.connectionPromise' settles: the new client is
\* stored and returned, or the catch runs; then the finally.
Connect_Created ==
    /\ \E c \in ConnectCalls :
          /\ xmtp.calls[c].pc = "creating"
          /\ \/ xmtp' = [xmtp EXCEPT !.client = c, !.isConnecting = FALSE,
                                     !.connectionPromise = 0,
                                     !.calls[c].pc = "returned", !.calls[c].result = c]
             \/ xmtp' = [connectThrew(xmtp) EXCEPT !.calls[c].pc = "threw"]
    /\ UNCHANGED besideXmtp

\* A caller that was handed the connectionPromise of another call gets what
\* that promise settled with.
Connect_Waiter ==
    /\ \E c \in ConnectCalls :
          /\ xmtp.calls[c].pc = "waiting"
          /\ xmtp.calls[xmtp.calls[c].awaiting].pc \in {"returned", "threw"}
          /\ xmtp' = [xmtp EXCEPT !.calls[c].pc = xmtp.calls[xmtp.calls[c].awaiting].pc,
                                  !.calls[c].result = xmtp.calls[xmtp.calls[c].awaiting].result]
    /\ UNCHANGED besideXmtp

\* disconnect()
Disconnect ==
    /\ xmtp' = [xmtp EXCEPT !.client = 0, !.isConnecting = FALSE, !.connectionPromise = 0,
                            !.encryptedStorage = FALSE, !.userAddress = FALSE,
                            !.disconnected = TRUE, !.sinceDisconnect = TRUE]
    /\ UNCHANGED besideXmtp

XmtpNext ==
    \/ Connect
    \/ Connect_Identifier
    \/ Connect_Migrated
    \/ Connect_Created
    \/ Connect_Waiter
    \/ Disconnect

XmtpSpec == Init /\ [][XmtpNext]_vars

(***************************************************************************)
(* IdentityInfo.tsx: the AES-GCM envelope around localStorage.  A key is   *)
(* named by the order in which generateEncryptionKey produced it; an       *)
(* envelope records the key it was encrypted under, and decrypts under     *)
(* that key only.                                                          *)
(***************************************************************************)
besideStore == <<modalVars, card, reads, form, conv, enc, price, nav, xmtp>>

\* encryptData(data, key) in its envelope; decryptData throws under another key.
encryptData(data, key) == [data EXCEPT !.kind = "enc", !.under = key]
decryptData(envelope) == [envelope EXCEPT !.kind = "plain", !.under = 0]

\* getOrCreateEncryptionKey(userAddress): the stored key when localStorage has
\* one that parses and imports, else a new key, stored under keyStorageId.
getOrCreateEncryptionKey(st) ==
    LET storedKey == st.ls[Name(FALSE, KeyStorageId)]
    IN  IF storedKey.kind = "plain" /\ storedKey.text = "jwk"
        THEN [ls |-> st.ls, gen |-> st.gen, key |-> storedKey.jwk]
        ELSE [ls |-> [st.ls EXCEPT ![Name(FALSE, KeyStorageId)] = JwkOf(st.gen + 1)],
              gen |-> st.gen + 1, key |-> st.gen + 1]

\* setEncryptedItem(key, value, userAddress)
setEncryptedItem(st, base, value) ==
    LET k == getOrCreateEncryptionKey(st)
    IN  [ls |-> [k.ls EXCEPT ![Name(TRUE, base)] = encryptData(value, k.key)], gen |-> k.gen]

\* getEncryptedItem(key, userAddress): the decrypted item; without an
\* envelope the unencrypted fallback; an envelope that does not decrypt is
\* removed and the fallback returned.
getEncryptedItem(st, base) ==
    LET storedData == st.ls[Name(TRUE, base)]
        k == getOrCreateEncryptionKey(st)
    IN  IF storedData.kind = "none"
        THEN [ls |-> st.ls, gen |-> st.gen, value |-> st.ls[Name(FALSE, base)]]
        ELSE IF storedData.under = k.key
        THEN [ls |-> k.ls, gen |-> k.gen, value |-> decryptData(storedData)]
        ELSE [ls |-> [k.ls EXCEPT ![Name(TRUE, base)] = Absent], gen |-> k.gen,
              value |-> k.ls[Name(FALSE, base)]]

\* key.includes('xmtp') || key.includes('conversation') || key.includes('message')
\* || key.includes('keystore') || key.includes('private_key'), for the names
\* of the model.
includesXmtpWord(base) == base \in {KeyStorageId, "conversation_1"}

\* The names migrateToEncrypted collects: no ENCRYPTED_DATA_PREFIX, one of the words.
xmtpKeys(ls) ==
    {b \in {KeyStorageId} \cup DataNames :
        ls[Name(FALSE, b)].kind # "none" /\ includesXmtpWord(b)}

RECURSIVE migrateEach(_, _)
\* The loop of migrateToEncrypted over the names collected, in their order.
migrateEach(st, keys) ==
    IF Len(keys) = 0 THEN st
    ELSE LET value == st.ls[Name(FALSE, Head(keys))]
             after == setEncryptedItem(st, Head(keys), value)
         IN  migrateEach(IF value.kind = "none" THEN st
                         ELSE [ls |-> [after.ls EXCEPT ![Name(FALSE, Head(keys))] = Absent],
                               gen |-> after.gen],
                         Tail(keys))

\* The orders in which localStorage.key(i) may enumerate a set of names.
Orders(S) ==
    {seq \in [1..Cardinality(S) -> S] : \A i, j \in 1..Cardinality(S) : seq[i] = seq[j] => i = j}

\* Unencrypted data of an earlier version of the client is in localStorage
\* before the encrypted storage is used for the first time.
Store_Legacy ==
    /\ store = EmptyStore
    /\ \E b \in DataNames :
          store' = [store EXCEPT !.ls[Name(FALSE, b)] = Plain("legacy")]
    /\ UNCHANGED besideStore

\* The client stores a value: setEncryptedItem(key, v, user).
Store_setEncryptedItem ==
    /\ store.gen < MaxKeys
    /\ \E b \in DataNames : \E v \in {"v1", "v2"} :
          LET after == setEncryptedItem([ls |-> store.ls, gen |-> store.gen], b, Plain(v))
          IN  store' = [store EXCEPT !.ls = after.ls, !.gen = after.gen, !.written[b] = v]
    /\ UNCHANGED besideStore

\* connect runs migrateToEncrypted(userAddress).
Store_migrateToEncrypted ==
    /\ store.gen < MaxKeys
    /\ \E keys \in Orders(xmtpKeys(store.ls)) :
          LET after == migrateEach([ls |-> store.ls, gen |-> store.gen], keys)
          IN  store' = [store EXCEPT !.ls = after.ls, !.gen = after.gen]
    /\ UNCHANGED besideStore

\* The client reads a value: getEncryptedItem(key, user).
Store_getEncryptedItem ==
    /\ store.gen < MaxKeys
    /\ \E b \in DataNames :
          LET after == getEncryptedItem([ls |-> store.ls, gen |-> store.gen], b)
          IN  store' = [store EXCEPT !.ls = after.ls, !.gen = after.gen]
    /\ UNCHANGED besideStore

StoreNext ==
    \/ Store_Legacy
    \/ Store_setEncryptedItem
    \/ Store_migrateToEncrypted
    \/ Store_getEncryptedItem

StoreSpec == Init /\ [][StoreNext]_vars

\* The same with the user closing and re-opening the modal at any moment.
ReopenNext ==
    \/ Next
    \/ CloseModal
    \/ OpenModal

ReopenSpec == Init /\ [][ReopenNext]_vars

(***************************************************************************)
(* ChatInbox.tsx renders one EscrowModal, in the mode escrowModalMode: a   *)
(* run of this specification uses it in create mode first, if at all, and  *)
(* in manage mode afterwards.                                              *)
(***************************************************************************)
\* The manage-mode instance has not taken a step yet.
ManageNotStarted ==
    /\ op = IdleOp /\ loadPc = "reading" /\ listPc = "reading"
    /\ nowMs = 0 /\ tx = NoTx /\ chain = InitialEscrow /\ readView = InitialEscrow

ModalNext ==
    \/ form.pc = "closed" /\ Next
    \/ ManageNotStarted /\ CreateNext

ModalSpec == Init /\ [][ModalNext]_vars

\* The awaited read of an iteration settles (getEscrow resolves, with null on
\* failure) and the delay timer fires: the event loop runs a polling loop on.
FairSpec ==
    /\ Spec
    /\ WF_vars(waitForEscrowStateChange_Attempt)
    /\ WF_vars(waitForEscrowStateChange_Exhausted)

(***************************************************************************)
(* Properties.                                                             *)
(***************************************************************************)
\* The Escrow records the client holds or can read in the current state.
KnownEscrows == {escrow, readView, chain} \ {NoEscrow}

\* The caller is the buyer / the seller of e, whatever the spelling.
CallerIsBuyer(e, u) == u.acct = e.buyer.acct
CallerIsSeller(e, u) == u.acct = e.seller.acct
CallerIsParty(e, u) == CallerIsBuyer(e, u) \/ CallerIsSeller(e, u)

\* The deadline of e has passed at the current instant.
DeadlinePassed(e) == nowMs > e.deadline * MsPerSec

Range(seq) == {seq[i] : i \in 1..Len(seq)}

\* C1: canUserFundEscrow(escrow, caller) is true exactly when the caller is
\* the buyer, the state is CREATED and the deadline has not passed; so for an
\* unchanged CREATED escrow it is false at every instant after the deadline.
C1_FundExactly ==
    \A e \in KnownEscrows : \A u \in Address :
        canUserFundEscrow(e, u) <=>
            (CallerIsBuyer(e, u) /\ e.state = CREATED /\ nowMs <= e.deadline * MsPerSec)

\* C1 witness: the snapshot is still CREATED, the deadline has passed, and the
\* buyer is refused.
C1_Witness ==
    /\ escrow # NoEscrow /\ escrow.state = CREATED
    /\ nowMs > escrow.deadline * MsPerSec
    /\ CallerIsBuyer(escrow, address)
    /\ ~canUserFundEscrow(escrow, address)

\* C2 (as claimed): from a CREATED, unexpired escrow both deposit orders can
\* be carried out through offered actions: while the snapshot is unexpired
\* the buyer is offered the payment deposit in CREATED and in NFT_DEPOSITED,
\* and the seller the NFT deposit in CREATED and in FUNDED.
C2_BothDepositOrders ==
    (escrow # NoEscrow /\ ~DeadlinePassed(escrow)) =>
        /\ escrow.state \in {CREATED, NFT_DEPOSITED} =>
              \A u \in Address : CallerIsBuyer(escrow, u) => OffersFund(escrow, u)
        /\ escrow.state \in {CREATED, FUNDED} =>
              \A u \in Address : CallerIsSeller(escrow, u) => OffersDepositNFT(escrow, u)

\* C3 (as claimed): the cancel-expired action is offered to a party exactly
\* when the deadline has passed and the state is none of COMPLETED, CANCELLED,
\* DISPUTED, or the state is DISPUTED and disputeDeadline has passed.
C3_CancelExpiredExactly ==
    \A u \in Address :
        (escrow # NoEscrow /\ CallerIsParty(escrow, u)) =>
            (OffersCancelExpired(escrow, u) <=>
                \/ DeadlinePassed(escrow) /\ escrow.state \notin {COMPLETED, CANCELLED, DISPUTED}
                \/ escrow.state = DISPUTED /\ nowMs > escrow.disputeDeadline * MsPerSec)

\* C4: while the snapshot is COMPLETED or CANCELLED no mutating action is
\* offered: for every caller all five permission predicates are false and
\* the cancel-expired action is not offered, before and after the deadline.
C4_TerminalOffersNothing ==
    (escrow # NoEscrow /\ escrow.state \in {COMPLETED, CANCELLED}) =>
        \A u \in Address :
            /\ ~canUserFundEscrow(escrow, u)
            /\ ~canUserDepositNFT(escrow, u)
            /\ ~canUserCompleteEscrow(escrow, u)
            /\ ~canUserCancelEscrow(escrow, u)
            /\ ~canUserRaiseDispute(escrow, u)
            /\ ~OffersCancelExpired(escrow, u)

\* C4 witness: a party looks at a COMPLETED snapshot after the deadline.
C4_Witness ==
    /\ escrow # NoEscrow /\ escrow.state = COMPLETED
    /\ DeadlinePassed(escrow)
    /\ CallerIsParty(escrow, address)

\* C5: canUserDepositNFT is true exactly when the caller is the seller, the
\* state is CREATED or FUNDED, and the deadline has not passed.
C5_DepositNFTExactly ==
    \A e \in KnownEscrows : \A u \in Address :
        canUserDepositNFT(e, u) <=>
            (CallerIsSeller(e, u) /\ e.state \in {CREATED, FUNDED} /\ ~DeadlinePassed(e))

\* C5 witness: the seller may deposit into a FUNDED escrow.
C5_Witness ==
    /\ escrow # NoEscrow /\ escrow.state = FUNDED
    /\ CallerIsSeller(escrow, address)
    /\ canUserDepositNFT(escrow, address)

\* C6: canUserRaiseDispute is true exactly when the caller is a party, the
\* state is FUNDED, NFT_DEPOSITED or ACTIVE, and the deadline has not passed.
C6_RaiseDisputeExactly ==
    \A e \in KnownEscrows : \A u \in Address :
        canUserRaiseDispute(e, u) <=>
            /\ CallerIsParty(e, u)
            /\ e.state \in {FUNDED, NFT_DEPOSITED, ACTIVE}
            /\ ~DeadlinePassed(e)

\* C6 witness: a party is refused a dispute on an ACTIVE escrow after the deadline.
C6_Witness ==
    /\ escrow # NoEscrow /\ escrow.state = ACTIVE
    /\ DeadlinePassed(escrow)
    /\ CallerIsParty(escrow, address)
    /\ ~canUserRaiseDispute(escrow, address)

\* C7: canUserCancelEscrow is true exactly when the caller is a party and the
\* state is not COMPLETED, CANCELLED or DISPUTED, whether or not the deadline
\* has passed.
C7_CancelExactly ==
    \A e \in KnownEscrows : \A u \in Address :
        canUserCancelEscrow(e, u) <=>
            (CallerIsParty(e, u) /\ e.state \notin {COMPLETED, CANCELLED, DISPUTED})

\* C7 witness: a party may cancel a FUNDED escrow after the deadline.
C7_Witness ==
    /\ escrow # NoEscrow /\ escrow.state = FUNDED
    /\ DeadlinePassed(escrow)
    /\ CallerIsParty(escrow, address)
    /\ canUserCancelEscrow(escrow, address)

\* C8: canUserCompleteEscrow is true exactly when the caller is a party and
\* the state is ACTIVE, whether or not the deadline has passed.
C8_CompleteExactly ==
    \A e \in KnownEscrows : \A u \in Address :
        canUserCompleteEscrow(e, u) <=> (CallerIsParty(e, u) /\ e.state = ACTIVE)

\* C8 witness: the seller may complete an ACTIVE escrow after the deadline.
C8_Witness ==
    /\ escrow # NoEscrow /\ escrow.state = ACTIVE
    /\ DeadlinePassed(escrow)
    /\ CallerIsSeller(escrow, address)
    /\ canUserCompleteEscrow(escrow, address)

\* C9: depositNFT submits the approval, waits for its receipt, and only then
\* submits the deposit; when the approval's submission or confirmation fails
\* the deposit is never submitted and the failure reaches the handler.
C9_ApprovalBeforeDeposit ==
    (op.kind = "depositNFT") =>
        /\ "depositNFT" \in Range(txLog) =>
              /\ Len(txLog) >= 3
              /\ txLog[1] = "approve" /\ txLog[2] = "approveReceipt" /\ txLog[3] = "depositNFT"
        /\ (op.pc = "done" /\ "approveReceipt" \notin Range(txLog)) =>
              /\ op.result = "threw"
              /\ "depositNFT" \notin Range(txLog)

\* C9 witness: the approval was submitted, its confirmation failed, and the
\* handler ended in its catch without a deposit.
C9_Witness ==
    /\ op.kind = "depositNFT" /\ op.pc = "done"
    /\ txLog = <<"approve">>
    /\ op.result = "threw"

\* The safety part of C10: at most maxAttempts reads are made; the result is
\* true as soon as one read shows the expected state, false when none of the
\* maxAttempts reads did; a failed read counts as a read that did not match.
C10_PollBounded ==
    /\ op.attempt <= PollMaxAttempts
    /\ op.pc = "poll" => (~op.sawExpected /\ op.polled = NULL)
    /\ op.polled = "true" => op.sawExpected
    /\ op.polled = "false" => (op.attempt = PollMaxAttempts /\ ~op.sawExpected)

\* C10: waitForEscrowStateChange always terminates after at most maxAttempts
\* reads, returns true as soon as one read shows the expected state and false
\* when none does, and never throws: a running poll always comes to its end.
C10_Terminates == []C10_PollBounded /\ ((op.pc = "poll") ~> (op.pc # "poll"))

\* C10 witness: every read failed to show the expected state and the poll
\* returned false.
C10_Witness ==
    /\ op.polled = "false"
    /\ op.attempt = PollMaxAttempts

\* C11: when the transaction is confirmed but the poll uses up its attempts
\* without reading the expected state, the handler ends with a warning notice
\* and no error notice, nothing is thrown, the escrow is reloaded,
\* onEscrowUpdated is called, and the modal is left not busy.
C11_TimeoutIsWarning ==
    (op.pc = "done" /\ "receipt" \in Range(txLog) /\ op.polled = "false") =>
        /\ Toast("warning", "updating") \in Range(toasts)
        /\ \A i \in 1..Len(toasts) : toasts[i].type # "error"
        /\ op.result = "returned"
        /\ "loadEscrowData" \in Range(txLog)
        /\ "onEscrowUpdated" \in Range(txLog)
        /\ ~op.detached => ~isLoading

\* C11 witness: the transaction changed the chain, every read of the poll
\* missed the new state, and the handler has ended.
C11_Witness ==
    /\ op.pc = "done" /\ op.polled = "false"
    /\ "receipt" \in Range(txLog)
    /\ chain.state = op.expected
    /\ ~isLoading

\* Some action button of the modal is rendered and not disabled for the
\* connected account.
SomeButtonEnabled ==
    /\ isOpen /\ ~isLoading
    /\ \/ OffersFund(escrow, address)
       \/ OffersDepositNFT(escrow, address)
       \/ OffersComplete(escrow, address)
       \/ OffersCancel(escrow, address)
       \/ OffersDispute(escrow, address)
       \/ OffersCancelExpired(escrow, address)

\* A mutating action is in flight: from its submission to the end of its reload.
ActionInFlight == op.pc \in {"approve", "approveWait", "write", "receipt", "poll", "reloading"}

\* C14 (as claimed): while a mutating action is in flight no action button
\* of the modal is enabled, whatever the user does in between (closing and
\* re-opening the modal included).
C14_BusyWhileInFlight == ActionInFlight => ~SomeButtonEnabled

\* C12 (as claimed): getEscrow returns null for a missing record or a
\* reverted read, and lets a transport failure reach the caller as an error:
\* after a read that failed in the transport the card shows `Failed to load
\* escrow', not `Escrow not found'.
C12_TransportPropagates ==
    ~card.isLoading =>
        /\ card.lastOutcome = "transport" => card.error = "Failed to load escrow"
        /\ card.lastOutcome = "revert" => card.error = "Escrow not found"

\* C15 (as claimed): the snapshot the card displays is never replaced by the
\* result of a read issued before the read that produced the displayed one.
C15_FreshnessDecides == [][card'.shownBy >= card.shownBy]_vars

\* The notices of a run whose wallet prompt was rejected: a neutral
\* `cancelled' warning and no error.
NeutralNotice(notices) ==
    /\ Toast("warning", "cancelled") \in Range(notices)
    /\ \A i \in 1..Len(notices) : notices[i].type # "error"

\* The part of C13 about the six handlers of manage mode.
C13_ManageRejectionIsNeutral ==
    (op.pc = "done" /\ op.err = "UserRejected") => NeutralNotice(toasts)

\* C13 (as claimed): for every mutating action started from the modal, the
\* create form included, a wallet prompt the user rejects gives a neutral
\* `cancelled' warning notice and no error notice.
C13_RejectionIsNeutral ==
    /\ C13_ManageRejectionIsNeutral
    /\ (form.pc = "done" /\ form.err = "UserRejected") => NeutralNotice(form.toasts)

\* C19 (as claimed): every createEscrow transaction the create form submits
\* has seller and buyer of different accounts.
C19_SellerIsNotBuyer ==
    form.submitted # NoArgs => form.submitted.seller.acct # form.submitted.buyer.acct

\* The caller's role in e: buyer, seller or neither.
RoleOf(e, u) ==
    IF CallerIsBuyer(e, u) THEN "buyer"
    ELSE IF CallerIsSeller(e, u) THEN "seller"
    ELSE "neither"

\* C16: getNextAction returns a non-empty string for every state, expiry
\* and caller; the string depends only on (state, expired, role); a
\* combination without guidance of its own (CREATED, unexpired, neither
\* party) gives `No action required'.
C16_NextActionTotal ==
    LET answers == {[state |-> e.state, expired |-> DeadlinePassed(e),
                     role |-> RoleOf(e, u), text |-> getNextAction(e, u)] :
                        e \in KnownEscrows, u \in Address}
    IN  /\ \A a \in answers :
               /\ a.state \in EscrowState
               /\ a.text # ""
               /\ (a.state = CREATED /\ ~a.expired /\ a.role = "neither") =>
                      a.text = "No action required"
        /\ \A a, b \in answers :
               (a.state = b.state /\ a.expired = b.expired /\ a.role = b.role) =>
                   a.text = b.text

\* C16 witness: a third account looks at an unexpired CREATED escrow.
C16_Witness ==
    /\ escrow # NoEscrow /\ escrow.state = CREATED
    /\ ~DeadlinePassed(escrow)
    /\ ~CallerIsParty(escrow, address)
    /\ getNextAction(escrow, address) = "No action required"

\* C17: getNextAction answers COMPLETED and CANCELLED with the terminal
\* message whatever the expiry and the role; else CREATED, FUNDED,
\* NFT_DEPOSITED and ACTIVE after the deadline with the expiry message
\* whatever the role; only else with guidance by role: in CREATED the buyer
\* is told to deposit the payment and the seller to wait for the buyer.
C17_NextActionPrecedence ==
    \A e \in KnownEscrows : \A u \in Address :
        /\ e.state = COMPLETED => getNextAction(e, u) = "Escrow completed successfully"
        /\ e.state = CANCELLED => getNextAction(e, u) = "Escrow was cancelled"
        /\ (e.state \in {CREATED, FUNDED, NFT_DEPOSITED, ACTIVE} /\ DeadlinePassed(e)) =>
               getNextAction(e, u) = "Escrow expired - funds can be refunded"
        /\ (e.state = CREATED /\ ~DeadlinePassed(e) /\ CallerIsBuyer(e, u)) =>
               getNextAction(e, u) = "Deposit payment to continue"
        /\ (e.state = CREATED /\ ~DeadlinePassed(e) /\ CallerIsSeller(e, u)) =>
               getNextAction(e, u) = "Waiting for buyer to deposit payment"

\* C17 witness: the buyer looks at an ACTIVE escrow after the deadline and
\* is told it has expired.
C17_Witness ==
    /\ escrow # NoEscrow /\ escrow.state = ACTIVE
    /\ DeadlinePassed(escrow)
    /\ CallerIsBuyer(escrow, address)
    /\ getNextAction(escrow, address) = "Escrow expired - funds can be refunded"

\* The 1-based position of id among ids sorted ascending.
SortedPosition(ids, id) == Cardinality({ids[j] : j \in 1..Len(ids)} \cap 1..id)

\* C18 (as claimed): every place that shows or announces the number of an
\* escrow shows its 1-based position among the conversation's escrow ids
\* sorted ascending.
C18_NumberIsSortedPosition ==
    conv.shown # NoNumber =>
        conv.shown.number = SortedPosition(conv.ids, conv.shown.id)

\* The value of a hexadecimal digit character.
HexValue(ch) == (CHOOSE i \in 1..16 : HexDigits[i] = ch) - 1

\* The bytes a key `0x...' stands for.
KeyBytes(key) ==
    [i \in 1..((Len(key) - 2) \div 2) |-> 16 * HexValue(key[2 * i + 1]) + HexValue(key[2 * i + 2])]

\* The first 32 bytes of data, when it has that many.
First32(data) == [i \in 1..Bytes32Size |-> data[i]]

\* C20: conversationIdToBytes32 gives the same key for the same identifier,
\* and the key is always exactly 32 bytes: the first min(n, 32) bytes of the
\* identifier's UTF-8 encoding (n bytes long) followed by zero bytes; so two
\* different identifiers longer than 32 bytes with the same first 32 bytes
\* have the same key.
C20_Bytes32Key ==
    enc.called =>
        LET data == encode(enc.id)
            n == Len(data)
            bytes == KeyBytes(enc.key)
        IN  /\ enc.key = conversationIdToBytes32(enc.id)
            /\ Len(enc.key) = 2 + 2 * Bytes32Size
            /\ enc.key[1] = "0" /\ enc.key[2] = "x"
            /\ Len(bytes) = Bytes32Size
            /\ \A i \in 1..Bytes32Size :
                   bytes[i] = IF i <= n /\ i <= Bytes32Size THEN data[i] ELSE 0
            /\ \A other \in ConversationIds :
                   (/\ n > Bytes32Size
                    /\ Len(encode(other)) > Bytes32Size
                    /\ First32(encode(other)) = First32(data)) =>
                       conversationIdToBytes32(other) = enc.key

\* C20 witness: an identifier longer than 32 bytes was encoded, and a
\* different one with the same first 32 bytes has the same key.
C20_Witness ==
    /\ enc.called
    /\ Len(encode(enc.id)) > Bytes32Size
    /\ \E other \in ConversationIds :
          /\ other # enc.id
          /\ conversationIdToBytes32(other) = enc.key

\* The identifiers whose encoding fits the key.
ShortIds == {id \in ConversationIds : Len(encode(id)) <= Bytes32Size}

\* The identifier ends in U+0000, the character the buffer is padded with.
EndsInNul(id) == Len(id) > 0 /\ id[Len(id)] = 0

\* C21 (as claimed): two distinct identifiers whose UTF-8 encodings are at
\* most 32 bytes long never encode to the same key.
C21_ShortIdsInjective ==
    (enc.called /\ enc.id \in ShortIds) =>
        \A other \in ShortIds :
            other # enc.id => conversationIdToBytes32(other) # enc.key

\* C21 (amended): two distinct identifiers whose UTF-8 encodings are at most
\* 32 bytes long and which do not end in U+0000 never encode to the same key.
C21_ShortIdsInjective_NoTrailingNul ==
    (enc.called /\ enc.id \in ShortIds /\ ~EndsInNul(enc.id)) =>
        \A other \in ShortIds :
            (other # enc.id /\ ~EndsInNul(other)) =>
                conversationIdToBytes32(other) # enc.key

\* C21 witness: an identifier that fills the key exactly, with a two-byte
\* character as its last, was encoded.
C21_Witness ==
    /\ enc.called
    /\ Len(encode(enc.id)) = Bytes32Size
    /\ Len(enc.id) < Bytes32Size
    /\ ~EndsInNul(enc.id)

\* The decimal a string of digits and a point denotes, written without the
\* zeros that carry no value: "007.50" and "7.5" are the same number.
Canonical(d) ==
    LET integer == BigInt(integerOf(d))
        fraction == stripTrailingZeros(fractionOf(d))
    IN integer \o (IF fraction = <<>> THEN <<>> ELSE <<".">> \o fraction)

\* C22: the price conversion is an exact round trip.  A price typed with at
\* most 18 decimals and stored as parsePrice of it is rendered by formatPrice
\* as the same number; parsePrice of what formatPrice renders is the stored
\* integer; and the value the buyer's depositPayment attaches is escrow.price.
C22_PriceRoundTrip ==
    /\ (price.pc \in {"shown", "deposited"} /\ price.entered # NoText)
          => price.shown = Canonical(price.entered)
    /\ price.pc \in {"shown", "deposited"} => parsePrice(price.shown) = price.wei
    /\ price.pc = "deposited" => price.value = price.wei

\* A deposit of a price typed with all eighteen decimals, below one ether.
C22_Witness ==
    /\ price.pc = "deposited"
    /\ price.entered = <<"0", ".">> \o Zeros(EtherDecimals - 1) \o <<"1">>
    /\ price.wei = <<"1">>
    /\ price.shown = price.entered
    /\ price.value = <<"1">>

\* The state the contract leaves after a deposit, by the state before it.
LawfulAfterDeposit(kind, state) ==
    IF kind = "fund"
    THEN (IF state = CREATED THEN FUNDED ELSE ACTIVE)
    ELSE (IF state = CREATED THEN NFT_DEPOSITED ELSE ACTIVE)

\* C23: when a deposit the handler waits for is confirmed, the state the
\* handler is going to poll for is the lawful successor of the state the
\* escrow had before the deposit: FUNDED / NFT_DEPOSITED from CREATED, and
\* ACTIVE when the other side had already deposited.
C23_PolledStateIsLawful ==
    [][(/\ op.pc = "receipt"
        /\ op.kind \in {"fund", "depositNFT"}
        /\ tx.status = "pending"
        /\ chain'.state # chain.state)
           => op.expected = LawfulAfterDeposit(op.kind, chain.state)]_vars

\* C24: whenever getNextAction tells the caller to act themselves (deposit
\* the payment, deposit the NFT, complete), the permission predicate of that
\* action holds for the caller.
C24_GuidanceIsPermitted ==
    \A e \in KnownEscrows :
        /\ getNextAction(e, address) \in {"Deposit payment to continue",
                                          "Deposit payment to activate escrow"}
              => canUserFundEscrow(e, address)
        /\ getNextAction(e, address) = "Deposit your NFT to activate escrow"
              => canUserDepositNFT(e, address)
        /\ getNextAction(e, address) = "Complete escrow to receive NFT"
              => canUserCompleteEscrow(e, address)

\* C25: in manage mode, after any navigation and any actions, the escrow a
\* handler polls and reloads is the one its transaction was submitted for,
\* and the escrow shown after the reload is the one at the selected index.
C25_ActsOnSelectedEscrow ==
    /\ nav.polled # 0 => nav.polled = nav.submittedFor
    /\ nav.reloaded # 0 => nav.reloaded = nav.submittedFor
    /\ (nav.pc = "done" /\ nav.reloaded # 0 /\ nav.escrow # 0
          /\ Len(nav.allEscrows) > nav.currentEscrowIndex)
          => nav.escrow = nav.allEscrows[nav.currentEscrowIndex + 1]

\* C26: a success notice of a mutating action is emitted only after the
\* transaction was confirmed and the expected state was observed, and never
\* after a `may still be pending' or `may still be updating' warning of the
\* same action.
C26_SuccessOnlyAfterObserved ==
    \A i \in 1..Len(toasts) :
        toasts[i].type = "success"
           => /\ "receipt" \in Range(txLog)
              /\ op.polled = "true"
              /\ \A j \in 1..(i - 1) :
                    toasts[j] \notin {Toast("warning", "pending"), Toast("warning", "updating")}

\* C27: whatever the outcome of a mutating handler (success, rejection,
\* revert, transport error, error without a message, polling timeout), the
\* busy flag of the modal is false once the handler has finished, in manage
\* mode and in create mode; with no handler and no load running the modal is
\* not busy.
C27_NotBusyWhenFinished ==
    /\ (op.pc = "done" /\ ~op.detached) => ~isLoading
    /\ (op.pc = "idle" /\ loadPc = "done" /\ isOpen) => ~isLoading
    /\ form.pc \in {"idle", "done"} => ~form.isLoading

\* A handler has ended on an error without a message: its catch block threw,
\* and the flag is down.
C27_Witness ==
    /\ op.pc = "done" /\ op.err = "NoMessage" /\ ~op.detached
    /\ Len(toasts) = 1
    /\ ~isLoading

\* C28: connect is single-flight.  While the manager has not been
\* disconnected, at most one createXMTPClient is in flight at a time, every
\* call that returned got the same client, and that client is the one held.
C28_SingleFlight ==
    ~xmtp.disconnected =>
        /\ Cardinality({c \in ConnectCalls : xmtp.calls[c].pc = "creating"}) <= 1
        /\ \A c, d \in ConnectCalls :
              (xmtp.calls[c].pc = "returned" /\ xmtp.calls[d].pc = "returned")
                 => xmtp.calls[c].result = xmtp.calls[d].result

\* C29: after disconnect() and until a later call of connect, the manager
\* holds no client and no encrypted storage, also when a call of connect was
\* in flight at the time of the disconnect.
C29_DisconnectedHoldsNothing ==
    xmtp.sinceDisconnect => (xmtp.client = 0 /\ ~xmtp.encryptedStorage)

\* C30: a value stored with setEncryptedItem(key, v, user) stays readable:
\* after any later runs of migrateToEncrypted (connects) for the same user,
\* getEncryptedItem(key, user) returns v.
C30_StoredStaysReadable ==
    \A b \in DataNames :
        store.written[b] # ""
           => getEncryptedItem([ls |-> store.ls, gen |-> store.gen], b).value
                 = Plain(store.written[b])

=============================================================================
